---- MODULE Spec2Model ----
(***************************************************************************)
(* Model of src/main.py: a command-line driver that loads a JSON list of   *)
(* ticker requests, makes sure the output directory exists and then, one   *)
(* request after the other, fetches the history from the data provider and *)
(* writes it to a CSV file.                                                *)
(*                                                                         *)
(* Strings are sequences of one-character strings, so that the replace()   *)
(* of the worker, the f-string that builds the file name and the path join *)
(* are computed character by character.                                    *)
(***************************************************************************)
EXTENDS Integers, Sequences, FiniteSets

VARIABLES
    pc,           \* position of the single thread in main()
    argv,         \* the command line after the program name
    config_path,  \* args.config
    cfgFile,      \* what the file system holds at config_path
    requests,     \* main's local `requests`
    idx,          \* position of the for loop of main in `requests` (1-based)
    ticker_str,   \* worker local
    start,        \* worker local
    end,          \* worker local
    history_df,   \* worker local: "unset", "empty" or "rows"
    dirs,         \* directories that exist on disk
    files,        \* paths of the files under the output tree
    log,          \* records handed to logging, in order
    traceback,    \* exception that left main() uncaught ("" when none)
    exitStatus,   \* process exit status, -1 while running
    invoked,      \* indices on which fetch_and_save_data was called, in order
    returned,     \* [req, how] of every fetch_and_save_data call that returned
    fetched,      \* [req, result] of every ticker_obj.history call, in order
    written       \* [req, path] of every successful to_csv, in order

vars == <<pc, argv, config_path, cfgFile, requests, idx, ticker_str, start, end,
          history_df, dirs, files, log, traceback, exitStatus, invoked, returned,
          fetched, written>>

----------------------------------------------------------------------------
(* Bounds *)

\* longest configuration list explored
MaxRequests == 2

----------------------------------------------------------------------------
(* Strings *)

OUTPUT_DIR == <<"h","i","s","t","o","r","i","c","a","l","_","d","a","t","a">>

DefaultConfig == <<"c","o","n","f","i","g",".","j","s","o","n">>
OtherConfig   == <<"o","t","h","e","r",".","j","s","o","n">>

EmptyStr == << >>
T_BRK_DOT_B   == <<"B","R","K",".","B">>
T_BRK_UND_B   == <<"B","R","K","_","B">>
T_A_SLASH_B   == <<"A","/","B">>
D_START == <<"2","0","2","0","-","0","1","-","0","1">>
D_END   == <<"2","0","2","0","-","1","2","-","3","1">>

\* characters that cannot be part of a file name (the path separator)
FilenameInvalid == {"/"}

----------------------------------------------------------------------------
(* JSON values that can be elements of the configuration list.             *)
(* kind: "dict" for an object; "str" and "list" for a string or an array   *)
(* (`key in item` is a substring or membership test there); "int" for a    *)
(* number (`key in item` raises TypeError).  has: the keys k for which     *)
(* `k in item` is True.  The three values are the dict's values (EmptyStr  *)
(* where the key is absent or the element is no dict).                     *)

Keys == {"ticker", "start_date", "end_date"}
RequiredKeys == <<"ticker", "start_date", "end_date">>

Dict(has, t, s, e) ==
    [kind |-> "dict", has |-> has,
     ticker     |-> IF "ticker" \in has THEN t ELSE EmptyStr,
     start_date |-> IF "start_date" \in has THEN s ELSE EmptyStr,
     end_date   |-> IF "end_date" \in has THEN e ELSE EmptyStr]

NonDict(kind, has) ==
    [kind |-> kind, has |-> has,
     ticker |-> EmptyStr, start_date |-> EmptyStr, end_date |-> EmptyStr]

FullDicts ==
    {Dict(Keys, t, D_START, D_END) :
        t \in {T_BRK_DOT_B, T_BRK_UND_B, T_A_SLASH_B, EmptyStr}}
    \cup {Dict(Keys, T_BRK_DOT_B, EmptyStr, D_END),
          Dict(Keys, T_BRK_DOT_B, D_START, EmptyStr)}

PartialDicts ==
    {Dict(Keys \ {k}, T_BRK_DOT_B, D_START, D_END) : k \in Keys}
    \cup {Dict({}, EmptyStr, EmptyStr, EmptyStr)}

NonDicts ==
    {NonDict("str", Keys),          \* "ticker start_date end_date"
     NonDict("list", {"ticker"}),   \* ["ticker"]
     NonDict("int", {})}            \* 5

Items == FullDicts \cup PartialDicts \cup NonDicts

ConfigLists == UNION {[1..n -> Items] : n \in 0..MaxRequests}

\* what open() and json.load() find at config_path
ConfigFiles ==
    {[state |-> s, data |-> << >>] :
        s \in {"missing", "unreadable", "badjson", "notlist"}}
    \cup {[state |-> "list", data |-> d] : d \in ConfigLists}


Argvs == {<< >>, << <<"-","c">>, OtherConfig >>}

\* the output directory is absent, present, or present with a subdirectory A
InitialDirs == {{}, {OUTPUT_DIR}, {OUTPUT_DIR, OUTPUT_DIR \o <<"/", "A">>}}

----------------------------------------------------------------------------
(* logging *)

Rec(level, msg) == [level |-> level, msg |-> msg]

----------------------------------------------------------------------------
(* load_config *)

\* `key in item`
KeyIn(key, item) ==
    IF item.kind = "int" THEN "TypeError"
    ELSE IF key \in item.has THEN "True" ELSE "False"

\* all(key in item for key in ["ticker", "start_date", "end_date"]),
\* evaluated key by key, stopping at the first False or the first exception
RECURSIVE AllKeysFrom(_, _)
AllKeysFrom(item, k) ==
    IF k > Len(RequiredKeys) THEN "True"
    ELSE LET r == KeyIn(RequiredKeys[k], item)
         IN  IF r = "True" THEN AllKeysFrom(item, k + 1) ELSE r

\* the for loop over config_data: "ok", or the exception the first bad item raises
RECURSIVE ValidateFrom(_, _)
ValidateFrom(config_data, i) ==
    IF i > Len(config_data) THEN "ok"
    ELSE LET r == AllKeysFrom(config_data[i], 1)
         IN  IF r = "True" THEN ValidateFrom(config_data, i + 1)
             ELSE IF r = "False" THEN "ValueError"
             ELSE "TypeError"

Exit1(msg) == [exit |-> TRUE, requests |-> << >>, log |-> <<Rec("ERROR", msg)>>]

LoadedOk(data) ==
    [exit |-> FALSE, requests |-> data,
     log |-> <<Rec("INFO", "Successfully loaded")>>]

PassesCheck(item) == AllKeysFrom(item, 1) = "True"

RECURSIVE WithoutRepeats(_)
WithoutRepeats(q) ==
    IF q = << >> THEN << >>
    ELSE LET rest == WithoutRepeats(SubSeq(q, 1, Len(q) - 1))
         IN  IF \E i \in 1..(Len(q) - 1) : q[i] = q[Len(q)]
             THEN rest ELSE Append(rest, q[Len(q)])

\* faulty load_config: a malformed element is dropped and the rest returned
load_config_skip_invalid(file) ==
    IF file.state # "list" THEN Exit1("Invalid configuration")
    ELSE LoadedOk(SelectSeq(file.data, PassesCheck))

\* faulty load_config: the elements are not validated at all
load_config_unchecked(file) ==
    IF file.state # "list" THEN Exit1("Invalid configuration")
    ELSE LoadedOk(file.data)

\* faulty load_config: repeated requests are returned once
load_config_dedup(file) ==
    IF file.state # "list" \/ ValidateFrom(file.data, 1) # "ok"
    THEN Exit1("Invalid configuration")
    ELSE LoadedOk(WithoutRepeats(file.data))

\* faulty load_config: a missing file is taken for an empty configuration
load_config_missing_as_empty(file) ==
    IF file.state = "missing" THEN LoadedOk(<< >>)
    ELSE IF file.state # "list" \/ ValidateFrom(file.data, 1) # "ok"
    THEN Exit1("Invalid configuration")
    ELSE LoadedOk(file.data)

load_config(file) ==
    IF file.state = "missing"
    THEN Exit1("Configuration file not found")
    ELSE IF file.state = "unreadable"
    THEN Exit1("An unexpected error occurred while reading the config")
    ELSE IF file.state = "badjson"
    THEN Exit1("Failed to decode JSON")
    ELSE IF file.state = "notlist"
    THEN Exit1("Invalid configuration")
    ELSE LET v == ValidateFrom(file.data, 1)
         IN  IF v = "ValueError"
             THEN Exit1("Invalid configuration")
             ELSE IF v = "TypeError"
             THEN Exit1("An unexpected error occurred while reading the config")
             ELSE LoadedOk(file.data)

----------------------------------------------------------------------------
(* fetch_and_save_data: helpers *)

\* ticker_request[key]
Subscript(item, key) ==
    IF item.kind # "dict" THEN [raised |-> "TypeError", v |-> EmptyStr]
    ELSE IF key \notin item.has THEN [raised |-> "KeyError", v |-> EmptyStr]
    ELSE [raised |-> "", v |-> item[key]]

\* ticker_str.replace(".", "_")
Sanitize(s) == [i \in 1..Len(s) |-> IF s[i] = "." THEN "_" ELSE s[i]]

\* f"{safe_ticker_str}_{start}_to_{end}.csv"
Filename(safe_ticker_str, s, e) ==
    safe_ticker_str \o <<"_">> \o s \o <<"_","t","o","_">> \o e
                    \o <<".","c","s","v">>

\* output_dir / filename  (pathlib: an absolute right operand replaces the left)
PathJoin(dir, name) ==
    IF Len(name) > 0 /\ name[1] = "/" THEN name ELSE dir \o <<"/">> \o name

\* directory part of a path: everything before the last separator
Parent(path) ==
    LET seps == {i \in DOMAIN path : path[i] = "/"}
    IN  IF seps = {} THEN <<".">>
        ELSE LET last == CHOOSE i \in seps : \A j \in seps : j <= i
             IN  IF last = 1 THEN <<"/">> ELSE SubSeq(path, 1, last - 1)

OutputPath(t, s, e) == PathJoin(OUTPUT_DIR, Filename(Sanitize(t), s, e))

----------------------------------------------------------------------------
(* Initial state: the process has started, nothing of main() has run *)

Init ==
    /\ pc = "parse"
    /\ argv \in Argvs
    /\ config_path = EmptyStr
    /\ cfgFile \in ConfigFiles
    /\ requests = << >>
    /\ idx = 0
    /\ ticker_str = EmptyStr
    /\ start = EmptyStr
    /\ end = EmptyStr
    /\ history_df = "unset"
    /\ dirs \in InitialDirs
    /\ files = {}
    /\ log = << >>
    /\ traceback = ""
    /\ exitStatus = -1
    /\ invoked = << >>
    /\ returned = << >>
    /\ fetched = << >>
    /\ written = << >>

workerLocals == <<ticker_str, start, end, history_df>>
disk == <<dirs, files, written>>
calls == <<invoked, returned, fetched>>

\* main, lines 110-119: parser.parse_args()
ParseArgs ==
    /\ pc = "parse"
    /\ config_path' = IF argv = << >> THEN DefaultConfig ELSE argv[2]
    /\ pc' = "load"
    /\ UNCHANGED <<argv, cfgFile, requests, idx, workerLocals, disk, log,
                   traceback, exitStatus, calls>>

\* main, line 122: requests = load_config(args.config)
LoadConfig ==
    /\ pc = "load"
    /\ LET r == load_config(cfgFile)
       IN  /\ log' = log \o r.log
           /\ IF r.exit
              THEN /\ pc' = "done"
                   /\ exitStatus' = 1
                   /\ UNCHANGED requests
              ELSE /\ pc' = "mkdir"
                   /\ requests' = r.requests
                   /\ UNCHANGED exitStatus
    /\ UNCHANGED <<argv, config_path, cfgFile, idx, workerLocals, disk,
                   traceback, calls>>

\* main, lines 125-130: OUTPUT_DIR.mkdir(parents=True, exist_ok=True)
MakeOutputDir ==
    /\ pc = "mkdir"
    /\ \E ok \in BOOLEAN :
          IF OUTPUT_DIR \in dirs \/ ok
          THEN /\ dirs' = dirs \cup {OUTPUT_DIR}
               /\ log' = Append(log, Rec("INFO", "Output directory set to"))
               /\ pc' = "check"
               /\ UNCHANGED exitStatus
          ELSE /\ log' = Append(log, Rec("ERROR", "Failed to create output directory"))
               /\ pc' = "done"
               /\ exitStatus' = 1
               /\ UNCHANGED dirs
    /\ UNCHANGED <<argv, config_path, cfgFile, requests, idx, workerLocals,
                   files, written, traceback, calls>>

\* faulty main: the empty check of lines 133-135 is missing
CheckRequests_no_empty_check ==
    /\ pc = "check"
    /\ idx' = 1
    /\ pc' = "loop"
    /\ UNCHANGED <<argv, config_path, cfgFile, requests, workerLocals, disk,
                   log, exitStatus, traceback, calls>>

\* main, lines 133-137: the empty check and the start of the for loop
CheckRequests ==
    /\ pc = "check"
    /\ IF requests = << >>
       THEN /\ log' = Append(log, Rec("WARNING", "No data fetch requests found"))
            /\ pc' = "done"
            /\ exitStatus' = 0
            /\ UNCHANGED idx
       ELSE /\ idx' = 1
            /\ pc' = "loop"
            /\ UNCHANGED <<log, exitStatus>>
    /\ UNCHANGED <<argv, config_path, cfgFile, requests, workerLocals, disk,
                   traceback, calls>>

\* the worker's frame is dropped and the for loop advances
Return(how) ==
    /\ returned' = Append(returned, [req |-> idx, how |-> how])
    /\ idx' = idx + 1
    /\ pc' = "loop"
    /\ ticker_str' = EmptyStr
    /\ start' = EmptyStr
    /\ end' = EmptyStr
    /\ history_df' = "unset"

\* main, line 138 and fetch_and_save_data, lines 72-76: the call, the three
\* subscripts (outside the try) and the first log line
WorkerEnter ==
    /\ pc = "loop"
    /\ idx <= Len(requests)
    /\ invoked' = Append(invoked, idx)
    /\ LET t == Subscript(requests[idx], "ticker")
           s == Subscript(requests[idx], "start_date")
           e == Subscript(requests[idx], "end_date")
           raised == IF t.raised # "" THEN t.raised
                     ELSE IF s.raised # "" THEN s.raised ELSE e.raised
       IN  IF raised # ""
           THEN /\ traceback' = raised
                /\ exitStatus' = 1
                /\ pc' = "done"
                /\ UNCHANGED <<ticker_str, start, end, log>>
           ELSE /\ ticker_str' = t.v
                /\ start' = s.v
                /\ end' = e.v
                /\ log' = Append(log, Rec("INFO", "Fetching data"))
                /\ pc' = "fetch"
                /\ UNCHANGED <<traceback, exitStatus>>
    /\ UNCHANGED <<argv, config_path, cfgFile, requests, idx, history_df, disk,
                   returned, fetched>>

\* faulty worker: the `return` of line 89 is missing, an empty result is saved
WorkerFetch_no_empty_return ==
    /\ pc = "fetch"
    /\ \E result \in {"rows", "empty", "raise"} :
       /\ fetched' = Append(fetched, [req |-> idx, result |-> result])
       /\ IF result # "raise"
          THEN /\ history_df' = result
               /\ pc' = "save"
               /\ log' = IF result = "empty"
                         THEN Append(log, Rec("WARNING", "No data found"))
                         ELSE log
               /\ UNCHANGED <<idx, returned, ticker_str, start, end>>
          ELSE /\ log' = Append(log, Rec("ERROR", "Failed to fetch or save data"))
               /\ Return("error")
    /\ UNCHANGED <<argv, config_path, cfgFile, requests, disk, traceback,
                   exitStatus, invoked>>

\* fetch_and_save_data, lines 78-89 and 101-103: the external call and the
\* emptiness check; the provider returns rows, returns nothing, or raises
WorkerFetch ==
    /\ pc = "fetch"
    /\ \E result \in {"rows", "empty", "raise"} :
       /\ fetched' = Append(fetched, [req |-> idx, result |-> result])
       /\ IF result = "rows"
          THEN /\ history_df' = "rows"
               /\ pc' = "save"
               /\ UNCHANGED <<log, idx, returned, ticker_str, start, end>>
          ELSE /\ log' = Append(log,
                           IF result = "empty"
                           THEN Rec("WARNING", "No data found")
                           ELSE Rec("ERROR", "Failed to fetch or save data"))
               /\ Return(IF result = "empty" THEN "empty" ELSE "error")
    /\ UNCHANGED <<argv, config_path, cfgFile, requests, disk, traceback,
                   exitStatus, invoked>>

\* fetch_and_save_data, lines 91-103: the file name, the path and to_csv,
\* which fails when the directory of the path is missing or the OS refuses
WorkerSave ==
    /\ pc = "save"
    /\ LET output_path == OutputPath(ticker_str, start, end)
       IN  \E io_ok \in BOOLEAN :
              IF Parent(output_path) \in dirs /\ io_ok
              THEN /\ files' = files \cup {output_path}
                   /\ written' = Append(written,
                                        [req |-> idx, path |-> output_path])
                   /\ log' = Append(log, Rec("INFO", "Successfully saved data"))
                   /\ Return("saved")
              ELSE /\ log' = Append(log, Rec("ERROR", "Failed to fetch or save data"))
                   /\ UNCHANGED <<files, written>>
                   /\ Return("error")
    /\ UNCHANGED <<argv, config_path, cfgFile, requests, dirs, traceback,
                   exitStatus, invoked, fetched>>

\* main, lines 137 and 140: the loop is exhausted
Complete ==
    /\ pc = "loop"
    /\ idx > Len(requests)
    /\ log' = Append(log, Rec("INFO", "All data fetching tasks complete."))
    /\ pc' = "done"
    /\ exitStatus' = 0
    /\ UNCHANGED <<argv, config_path, cfgFile, requests, idx, workerLocals,
                   disk, traceback, calls>>

Next ==
    \/ ParseArgs
    \/ LoadConfig
    \/ MakeOutputDir
    \/ CheckRequests
    \/ WorkerEnter
    \/ WorkerFetch
    \/ WorkerSave
    \/ Complete

Spec == Init /\ [][Next]_vars

----------------------------------------------------------------------------
(* Vocabulary of the properties *)

Range(q) == {q[i] : i \in DOMAIN q}

Logged(level, msg) == \E i \in DOMAIN log : log[i] = Rec(level, msg)

Done == pc = "done"
PastLoad == pc \notin {"parse", "load"}

ConfigLoadFailed ==
    \E i \in DOMAIN log :
        /\ log[i].level = "ERROR"
        /\ log[i].msg \in {"Configuration file not found", "Failed to decode JSON",
                           "Invalid configuration",
                           "An unexpected error occurred while reading the config"}

MkdirFailed == Logged("ERROR", "Failed to create output directory")

CompletionLogged == Logged("INFO", "All data fetching tasks complete.")

\* the element has no field `k` for some required k
Lacks(item) == \E k \in Keys : k \notin item.has

IsObject(item) == item.kind = "dict"

\* the file name the specification gives for a request whose ticker has the
\* characters in `bad` replaced by an underscore
RECURSIVE Underscored(_, _)
Underscored(s, bad) ==
    IF s = << >> THEN << >>
    ELSE <<IF Head(s) \in bad THEN "_" ELSE Head(s)>> \o Underscored(Tail(s), bad)

SpecPath(item, bad) ==
    OUTPUT_DIR \o <<"/">> \o Underscored(item.ticker, bad) \o <<"_">>
               \o item.start_date \o <<"_","t","o","_">> \o item.end_date
               \o <<".","c","s","v">>

WritesOf(i) == {k \in DOMAIN written : written[k].req = i}

----------------------------------------------------------------------------
(* C1 *)

\* C1 (as claimed): whenever the external fetch of a request raised, that
\* request wrote no file and, once the run has ended, the worker was invoked
\* on every later request and the run ended by normal completion (status 0,
\* no uncaught exception).
C1_FailingRequestNeverAbortsBatch ==
    \A k \in DOMAIN fetched :
        fetched[k].result = "raise" =>
            /\ WritesOf(fetched[k].req) = {}
            /\ Done =>
                 /\ \A j \in (fetched[k].req + 1)..Len(requests) : j \in Range(invoked)
                 /\ exitStatus = 0
                 /\ traceback = ""

\* C1 restricted to configurations whose elements are all objects (checked
\* for reference: the claim holds there)
C1_HoldsForObjects ==
    (\A i \in DOMAIN requests : IsObject(requests[i]))
        => C1_FailingRequestNeverAbortsBatch

----------------------------------------------------------------------------
(* C2 *)

\* C2 (as claimed): for every request whose worker call has returned, rows
\* fetched means exactly one file written, at the deterministic path; an
\* empty result means no file and a return without error.
C2_RowsAlwaysGiveOneFile ==
    \A k \in DOMAIN returned :
        LET i == returned[k].req
            f == CHOOSE x \in Range(fetched) : x.req = i
        IN  /\ f.result = "rows" =>
                 /\ Cardinality(WritesOf(i)) = 1
                 /\ \A w \in WritesOf(i) :
                        /\ written[w].path = SpecPath(requests[i], {"."})
                        /\ written[w].path \in files
            /\ f.result = "empty" =>
                 /\ WritesOf(i) = {}
                 /\ returned[k].how = "empty"

\* C2 (amended): rows fetched and to_csv succeeding means exactly one file
\* written, at the deterministic path; rows fetched and to_csv raising
\* (the directory of the path is missing, or the OS refuses) means no file
\* and a logged error; an empty result means no file and a return without
\* error.
C2_OneFilePerSuccessfulSave ==
    \A k \in DOMAIN returned :
        LET i == returned[k].req
            f == CHOOSE x \in Range(fetched) : x.req = i
        IN  /\ (f.result = "rows" /\ returned[k].how = "saved") =>
                 /\ Cardinality(WritesOf(i)) = 1
                 /\ \A w \in WritesOf(i) :
                        /\ written[w].path = SpecPath(requests[i], {"."})
                        /\ written[w].path \in files
            /\ (f.result = "rows" /\ returned[k].how # "saved") =>
                 /\ WritesOf(i) = {}
                 /\ returned[k].how = "error"
                 /\ Logged("ERROR", "Failed to fetch or save data")
            /\ f.result = "empty" =>
                 /\ WritesOf(i) = {}
                 /\ returned[k].how = "empty"
            /\ f.result = "raise" => WritesOf(i) = {}

\* a run in which one request saved its rows and another fetched nothing
C2_Witness ==
    /\ Done
    /\ \E a, b \in DOMAIN returned :
          /\ returned[a].how = "saved"
          /\ returned[b].how = "empty"
    /\ Cardinality(files) = 1

----------------------------------------------------------------------------
(* C3 *)

----------------------------------------------------------------------------
(* C4 *)

----------------------------------------------------------------------------
(* C5 *)

\* C5 (as claimed): every written file lies directly under the output
\* directory and its name is the ticker with every '.' and every
\* filename-invalid character replaced by '_', then _{start}_to_{end}.csv.
C5_NameIsSanitized ==
    \A k \in DOMAIN written :
        LET item == requests[written[k].req]
        IN  /\ written[k].path = SpecPath(item, {"."} \cup FilenameInvalid)
            /\ Parent(written[k].path) = OUTPUT_DIR

\* the part of C5 the code does implement: '.' is replaced (BRK.B)
C5_DotIsReplaced ==
    \A k \in DOMAIN written :
        requests[written[k].req].ticker = T_BRK_DOT_B
        /\ requests[written[k].req].start_date = D_START
        /\ requests[written[k].req].end_date = D_END
        => written[k].path =
             OUTPUT_DIR \o <<"/">> \o T_BRK_UND_B \o <<"_">> \o D_START
                        \o <<"_","t","o","_">> \o D_END \o <<".","c","s","v">>

----------------------------------------------------------------------------
(* C6 *)

\* C6 (as claimed): a run that has ended has status 0 or 1; it has status 1
\* exactly when configuration loading or output-directory creation failed.
C6_ExitStatus ==
    Done =>
        /\ exitStatus \in {0, 1}
        /\ exitStatus = 1 <=> (ConfigLoadFailed \/ MkdirFailed)

\* C6 restricted to configurations whose elements are all objects
C6_HoldsForObjects ==
    (cfgFile.state = "list" => \A i \in DOMAIN cfgFile.data : IsObject(cfgFile.data[i]))
        => C6_ExitStatus

----------------------------------------------------------------------------
(* C7 *)

\* C7: with no file at the configuration path the run ends at the load with
\* status 1, no fetch is made, and no step of the run changes the
\* directories or the files on disk.
C7_MissingConfigLeavesDiskAlone ==
    /\ [](cfgFile.state = "missing" /\ PastLoad
            => /\ Done
               /\ exitStatus = 1
               /\ invoked = << >>
               /\ fetched = << >>
               /\ written = << >>)
    /\ [][cfgFile.state = "missing" => dirs' = dirs /\ files' = files]_vars

\* the run has ended on a missing configuration file, output directory absent
C7_Witness ==
    /\ Done
    /\ cfgFile.state = "missing"
    /\ OUTPUT_DIR \notin dirs
    /\ exitStatus = 1

----------------------------------------------------------------------------
(* C8 *)

\* C8 (as claimed): a run on the empty list that has ended logged the
\* warning, never invoked the worker, wrote nothing and has status 0.
C8_EmptyListExitsZero ==
    (Done /\ cfgFile.state = "list" /\ cfgFile.data = << >>)
    => /\ Logged("WARNING", "No data fetch requests found")
       /\ invoked = << >>
       /\ files = {}
       /\ exitStatus = 0

\* C8 (amended): a run on the empty list that has ended never invoked the
\* worker and wrote nothing; if the output directory exists or was created
\* it logged the warning (and no completion message) and has status 0;
\* if the directory could not be created it has status 1.
C8_EmptyListNoWork ==
    (Done /\ cfgFile.state = "list" /\ cfgFile.data = << >>)
    => /\ invoked = << >>
       /\ fetched = << >>
       /\ files = {}
       /\ IF MkdirFailed
          THEN exitStatus = 1 /\ OUTPUT_DIR \notin dirs
          ELSE /\ Logged("WARNING", "No data fetch requests found")
               /\ ~CompletionLogged
               /\ exitStatus = 0
               /\ OUTPUT_DIR \in dirs

\* the run on the empty list has ended after the emptiness check
C8_Witness ==
    /\ Done
    /\ cfgFile.state = "list"
    /\ cfgFile.data = << >>
    /\ exitStatus = 0
    /\ Logged("WARNING", "No data fetch requests found")

----------------------------------------------------------------------------
(* C9 *)

\* C9: when every element of the configuration list carries the three
\* fields, the load succeeds and returns the list itself: same length, same
\* order, every field of every element unchanged, duplicates kept.
C9_ValidListReturnedVerbatim ==
    (cfgFile.state = "list" /\ PastLoad
        /\ \A i \in DOMAIN cfgFile.data : ~Lacks(cfgFile.data[i]))
    => /\ ~ConfigLoadFailed
       /\ Len(requests) = Len(cfgFile.data)
       /\ \A i \in DOMAIN requests :
             /\ requests[i].ticker = cfgFile.data[i].ticker
             /\ requests[i].start_date = cfgFile.data[i].start_date
             /\ requests[i].end_date = cfgFile.data[i].end_date
             /\ requests[i] = cfgFile.data[i]

\* a list holding the same request twice has been loaded
C9_Witness ==
    /\ pc = "mkdir"
    /\ Len(requests) = 2
    /\ requests[1] = requests[2]
    /\ IsObject(requests[1])

----------------------------------------------------------------------------
(* C10 *)

\* C10 (as claimed): on a run whose configuration loaded and whose output
\* directory was made, at most one invocation is open at any time, the
\* invocations are 1, 2, ... in order, the completion message is logged
\* only once every request's invocation has returned, and a run over a
\* non-empty list ends with every request invoked and returned once and the
\* completion message as its last log line.
C10_OncePerRequestInOrder ==
    (PastLoad /\ ~ConfigLoadFailed /\ ~MkdirFailed /\ requests # << >>)
    => /\ invoked = [k \in 1..Len(invoked) |-> k]
       /\ [k \in 1..Len(returned) |-> returned[k].req]
            = [k \in 1..Len(returned) |-> k]
       /\ Len(invoked) - Len(returned) \in {0, 1}
       /\ CompletionLogged => Len(returned) = Len(requests)
       /\ Done =>
             /\ Len(invoked) = Len(requests)
             /\ Len(returned) = Len(requests)
             /\ log[Len(log)] = Rec("INFO", "All data fetching tasks complete.")

\* C10 restricted to configurations whose elements are all objects
C10_HoldsForObjects ==
    (\A i \in DOMAIN requests : IsObject(requests[i]))
        => C10_OncePerRequestInOrder

====
